---------------------------- MODULE Spec2Model ----------------------------
(***************************************************************************)
(* Model of the host side of the BeagleG motion queue                      *)
(* (src/pru-motion-queue.c): the ring buffer shared between the CPU and    *)
(* the PRU, the enqueue / wait-queue-empty / motor-enable / shutdown       *)
(* operations of the hardware MotionQueue, and the PRU firmware as the     *)
(* in-order consumer of the ring buffer.                                   *)
(*                                                                         *)
(* The host is one thread; its position is pc.  Every access to memory     *)
(* shared with the PRU (a read of a slot's state, the write of one field   *)
(* of a slot, a wait for or a clear of the PRU event) is one step, so the  *)
(* PRU's steps interleave with them in every possible way.  Statements     *)
(* that touch only host-local data are folded into the neighbouring step.  *)
(*                                                                         *)
(* Spec starts in the state a successful init_pru_motion_queue leaves.     *)
(* StartupSpec starts before the program has called an init function: it   *)
(* adds the steps of init_pru_motion_queue with their failures, and        *)
(* init_dummy_motion_queue with the dummy operations.                      *)
(***************************************************************************)
EXTENDS Integers, Sequences, FiniteSets

VARIABLES
  ring_buffer,           \* pru_data_->ring_buffer: slot index -> MotionSegment
  queue_pos_,            \* static unsigned int queue_pos_
  gpio_1_dataout,        \* gpio_1[GPIO_DATAOUT/4]
  gpio_0,                \* static volatile uint32_t *gpio_0: "NULL", "MAP_FAILED", "mapped"
  gpio_1,                \* static volatile uint32_t *gpio_1
  pru_enabled,           \* the PRU program is running (prussdrv_pru_enable/disable)
  pruss_open,            \* the prussdrv handle is open (prussdrv_open/exit)
  event,                 \* PRU_EVTOUT_0 is pending
  pc,                    \* position of the host thread
  flush_queue,           \* pru_shutdown's argument: "none" outside pru_shutdown
  element,               \* *element: the caller's struct MotionSegment
  state_to_send,         \* pru_enqueue_segment's local
  queue_element,         \* pru_enqueue_segment's local: index of the slot acquired
  copied,                \* fields of the struct copy already stored
  last_insert_position,  \* pru_wait_queue_empty's local
  pru_pc,                \* position of the PRU firmware
  pru_pos,               \* the slot the PRU firmware looks at
  arg,                   \* history: the segment as the caller passed it
  enqueued,              \* history: segments passed to pru_enqueue_segment
  written,               \* history: slot contents at each state flip
  consumed,              \* history: slot contents the PRU executed
  owner,                 \* history: slot index -> segment of the call that took the slot
  nwrites,               \* history: number of host stores into the ring buffer
  mem_fd,                \* map_gpio's fd on /dev/mem: "none", "open", "invalid", "closed"
  gpio_oe,               \* gpio_0[GPIO_OE/4] and gpio_1[GPIO_OE/4]: "reset", "outputs"
  pru_data_,             \* static volatile struct PRUCommunication *pru_data_
  firmware,              \* PRUcode is in the PRU's instruction memory
  queue,                 \* *queue: the four operations of struct MotionQueue
  init_result,           \* what init_pru_motion_queue returned: <<>> before
  motor_on,              \* history: the argument of the last pru_motor_enable_nowait, if any
  failed,                \* history: the startup step that failed
  init_called,           \* history: the init function the program called
  ndummy                 \* history: number of dummy_enqueue calls

vars == <<ring_buffer, queue_pos_, gpio_1_dataout, gpio_0, gpio_1, pru_enabled,
          pruss_open, event, pc, flush_queue, element, state_to_send,
          queue_element, copied, last_insert_position, pru_pc, pru_pos,
          arg, enqueued, written, consumed, owner, nwrites, mem_fd, gpio_oe,
          pru_data_, firmware, queue, init_result, motor_on, failed,
          init_called, ndummy>>

hostLocals == <<element, state_to_send, queue_element, copied,
                last_insert_position>>
hardware   == <<gpio_1_dataout, gpio_0, gpio_1, pru_enabled, pruss_open>>
pruVars    == <<pru_pc, pru_pos>>
history    == <<arg, enqueued, written, consumed, owner, nwrites>>
\* What only the init functions and the dummy operations change.
platform   == <<mem_fd, gpio_oe, pru_data_, firmware, queue, init_result,
                failed, init_called, ndummy>>

\* map_gpio mapped both register banks and unmap_gpio has not run.
gpio_mapped == gpio_0 = "mapped" /\ gpio_1 = "mapped"

---------------------------------------------------------------------------
(* Bounds of the model. *)

\* Number of slots of the ring buffer.
QUEUE_LEN == 3

\* Number of pru_enqueue_segment calls the planner makes in one session.
MaxEnqueue == 4

---------------------------------------------------------------------------
(* Constants shared with the PRU firmware. *)

STATE_EMPTY == 0
STATE_FILLED == 1
STATE_EXIT == 2

MOTOR_ENABLE_GPIO1_BIT == 28

\* 2^32 modulo QUEUE_LEN, from 2^32 = 2^16 * 2^16: unsigned int is 32 bits wide.
UINT_MOD_QUEUE_LEN == ((2 ^ 16 % QUEUE_LEN) * (2 ^ 16 % QUEUE_LEN)) % QUEUE_LEN

Slots == 0 .. (QUEUE_LEN - 1)

\* The fields of struct MotionSegment the model carries: the state and two
\* payload fields.
DataFields == {"direction_bits", "loops_travel"}
Fields == {"state"} \cup DataFields

Segment(st, d, l) == [state |-> st, direction_bits |-> d, loops_travel |-> l]

\* bzero()'d memory, and "struct MotionSegment end_element = {0}".
ZeroSegment == Segment(0, 0, 0)

\* The segments a caller passes to enqueue.
InputSegments ==
  { Segment(st, p[1], p[2]) :
      st \in {STATE_EMPTY, STATE_FILLED, STATE_EXIT},
      p \in {<<1, 2>>, <<2, 1>>} }

NoSlot == QUEUE_LEN


---------------------------------------------------------------------------
(* map_pru_communication: the state after init_pru_motion_queue succeeded. *)

\* The state each slot gets from bzero() and the loop that follows it.
InitSlotState_SkipLast(i) == IF i = QUEUE_LEN - 1 THEN STATE_FILLED ELSE STATE_EMPTY

InitSlotState(i) == STATE_EMPTY

\* pru_motor_enable_nowait: the enable pin is inverse logic.
MotorEnableValue_Direct(on) == IF on THEN 2 ^ MOTOR_ENABLE_GPIO1_BIT ELSE 0

MotorEnableValue(on) == IF on THEN 0 ELSE 2 ^ MOTOR_ENABLE_GPIO1_BIT

\* The operations init_pru_motion_queue binds.
PruQueue ==
  [enqueue |-> "pru_enqueue_segment",
   wait_queue_empty |-> "pru_wait_queue_empty",
   motor_enable |-> "pru_motor_enable_nowait",
   shutdown |-> "pru_shutdown"]

Init ==
  /\ ring_buffer = [i \in Slots |-> [ZeroSegment EXCEPT !.state = InitSlotState(i)]]
  /\ queue_pos_ = 0
  /\ gpio_1_dataout = MotorEnableValue(FALSE)
  /\ gpio_0 = "mapped"
  /\ gpio_1 = "mapped"
  /\ pru_enabled = TRUE
  /\ pruss_open = TRUE
  /\ event = FALSE
  /\ pc = "idle"
  /\ flush_queue = "none"
  /\ element = ZeroSegment
  /\ state_to_send = STATE_EMPTY
  /\ queue_element = NoSlot
  /\ copied = {}
  /\ last_insert_position = NoSlot
  /\ pru_pc = "poll"
  /\ pru_pos = 0
  /\ arg = ZeroSegment
  /\ enqueued = <<>>
  /\ written = <<>>
  /\ consumed = <<>>
  /\ owner = [i \in Slots |-> ZeroSegment]
  /\ nwrites = 0
  /\ mem_fd = "closed"
  /\ gpio_oe = "outputs"
  /\ pru_data_ = "mapped"
  /\ firmware = TRUE
  /\ queue = PruQueue
  /\ init_result = <<0>>
  /\ motor_on = <<FALSE>>
  /\ failed = "none"
  /\ init_called = "pru"
  /\ ndummy = 0

---------------------------------------------------------------------------
(* pru_enqueue_segment and next_queue_element. *)

\* assert(state_to_send != STATE_EMPTY), in a build with assertions on.
AssertStateToSend_Disabled(s) == TRUE

AssertStateToSend(s) == s /= STATE_EMPTY

\* element->state = STATE_EMPTY: what the struct copy reads.
CopySource_KeepState(seg) == seg

CopySource(seg) == [seg EXCEPT !.state = STATE_EMPTY]

\* The wait loops of next_queue_element and of pru_wait_queue_empty: test
\* the slot's state; if the slot is occupied, wait for the PRU event, clear
\* the event, and test again.  The position that follows p.
WaitLoopNext_ClearFirst(p) ==
  CASE p = "nqe_loop" -> "nqe_clear"
    [] p = "nqe_clear" -> "nqe_wait"
    [] p = "nqe_wait" -> "nqe_loop"
    [] p = "wqe_loop" -> "wqe_clear"
    [] p = "wqe_clear" -> "wqe_wait"
    [] p = "wqe_wait" -> "wqe_loop"

WaitLoopNext(p) ==
  CASE p = "nqe_loop" -> "nqe_wait"
    [] p = "nqe_wait" -> "nqe_clear"
    [] p = "nqe_clear" -> "nqe_loop"
    [] p = "wqe_loop" -> "wqe_wait"
    [] p = "wqe_wait" -> "wqe_clear"
    [] p = "wqe_clear" -> "wqe_loop"

\* The loop condition of next_queue_element, negated: the slot may be taken.
SlotFree_Always(st) == TRUE

SlotFree(st) == st = STATE_EMPTY

\* queue_pos_++
NextPos_Skip(p) == p + 2

NextPos(p) == p + 1

\* Where the host continues when pru_enqueue_segment returns: in the caller of
\* the facade, or in pru_shutdown at pru_wait_queue_empty().
EnqueueReturn_NoWait(fl) == IF fl = "none" THEN "idle" ELSE "sd_disable"

EnqueueReturn(fl) == IF fl = "none" THEN "idle" ELSE "wqe_enter"

\* The entry of pru_enqueue_segment(seg), up to and including the
\* "queue_pos_ %= QUEUE_LEN" of next_queue_element: host-local only.
EnqueueEntry(seg) ==
  /\ arg' = seg
  /\ IF AssertStateToSend(seg.state)
       THEN /\ state_to_send' = seg.state
            /\ element' = CopySource(seg)
            /\ queue_pos_' = queue_pos_ % QUEUE_LEN
            /\ enqueued' = Append(enqueued, seg)
            /\ pc' = "nqe_loop"
       ELSE /\ element' = seg
            /\ pc' = "aborted"
            /\ UNCHANGED <<state_to_send, queue_pos_, enqueued>>
  /\ UNCHANGED <<ring_buffer, hardware, event, queue_element, copied,
                 last_insert_position, pruVars, written, consumed, owner,
                 nwrites>>
  /\ UNCHANGED <<platform, motor_on>>

\* The planner calls queue->enqueue(&seg).
Enqueue(seg) ==
  /\ pc = "idle"
  /\ queue.enqueue = "pru_enqueue_segment"
  /\ Len(enqueued) < MaxEnqueue
  /\ EnqueueEntry(seg)
  /\ UNCHANGED flush_queue

\* next_queue_element: one evaluation of the while condition.  A free slot
\* is taken (queue_pos_++) and the struct copy begins.
NqeLoop ==
  /\ pc = "nqe_loop"
  /\ IF SlotFree(ring_buffer[queue_pos_].state)
       THEN /\ queue_element' = queue_pos_
            /\ queue_pos_' = NextPos(queue_pos_)
            /\ copied' = {}
            /\ owner' = [owner EXCEPT ![queue_pos_] = arg]
            /\ pc' = "enq_copy"
       ELSE /\ pc' = WaitLoopNext(pc)
            /\ UNCHANGED <<queue_element, queue_pos_, copied, owner>>
  /\ UNCHANGED <<ring_buffer, hardware, event, flush_queue, element,
                 state_to_send, last_insert_position, pruVars, arg, enqueued,
                 written, consumed, nwrites>>
  /\ UNCHANGED <<platform, motor_on>>

\* prussdrv_pru_wait_event(PRU_EVTOUT_0) returns once the event is pending.
NqeWaitEvent ==
  /\ pc = "nqe_wait"
  /\ event
  /\ pc' = WaitLoopNext(pc)
  /\ UNCHANGED <<ring_buffer, queue_pos_, hardware, event, flush_queue,
                 hostLocals, pruVars, history>>
  /\ UNCHANGED <<platform, motor_on>>

\* prussdrv_pru_clear_event(PRU_EVTOUT_0, PRU0_ARM_INTERRUPT)
NqeClearEvent ==
  /\ pc = "nqe_clear"
  /\ event' = FALSE
  /\ pc' = WaitLoopNext(pc)
  /\ UNCHANGED <<ring_buffer, queue_pos_, hardware, flush_queue, hostLocals,
                 pruVars, history>>
  /\ UNCHANGED <<platform, motor_on>>

\* *queue_element = *element: the store of one field; the fields are stored
\* in any order.
EnqCopyField(f) ==
  /\ pc = "enq_copy"
  /\ f \notin copied
  /\ ring_buffer' = [ring_buffer EXCEPT ![queue_element][f] = element[f]]
  /\ copied' = copied \cup {f}
  /\ nwrites' = nwrites + 1
  /\ pc' = IF copied' = Fields THEN "enq_flip" ELSE "enq_copy"
  /\ UNCHANGED <<queue_pos_, hardware, event, flush_queue, element,
                 state_to_send, queue_element, last_insert_position, pruVars,
                 arg, enqueued, written, consumed, owner>>
  /\ UNCHANGED <<platform, motor_on>>

\* queue_element->state = state_to_send, and the return.  DumpMotionSegment
\* only reads the slot and prints to stderr; it changes nothing.
EnqFlip ==
  /\ pc = "enq_flip"
  /\ ring_buffer' = [ring_buffer EXCEPT ![queue_element].state = state_to_send]
  /\ nwrites' = nwrites + 1
  /\ written' = Append(written, ring_buffer'[queue_element])
  /\ pc' = EnqueueReturn(flush_queue)
  /\ queue_element' = NoSlot
  /\ copied' = {}
  /\ state_to_send' = STATE_EMPTY
  /\ UNCHANGED <<queue_pos_, hardware, event, flush_queue, element,
                 last_insert_position, pruVars, arg, enqueued, consumed,
                 owner>>
  /\ UNCHANGED <<platform, motor_on>>

---------------------------------------------------------------------------
(* pru_wait_queue_empty. *)

\* (queue_pos_ - 1) % QUEUE_LEN in unsigned int arithmetic: 0 - 1 wraps to
\* 2^32 - 1.
LastInsertPosition_Signed(p) == IF p >= 1 THEN (p - 1) % QUEUE_LEN ELSE -1

LastInsertPosition_Next(p) == p % QUEUE_LEN

LastInsertPosition(p) ==
  IF p >= 1 THEN (p - 1) % QUEUE_LEN
            ELSE (UINT_MOD_QUEUE_LEN + QUEUE_LEN - 1) % QUEUE_LEN

\* The loop condition of pru_wait_queue_empty, negated.
Drained_Always(st) == TRUE

Drained(st) == st = STATE_EMPTY

\* Where the host continues when pru_wait_queue_empty returns.
WaitReturn_SkipDisable(fl) == IF fl = "none" THEN "idle" ELSE "sd_exit"

WaitReturn(fl) == IF fl = "none" THEN "idle" ELSE "sd_disable"

\* The entry of pru_wait_queue_empty: host-local only.
WaitQueueEmptyEntry ==
  /\ last_insert_position' = LastInsertPosition(queue_pos_)
  /\ pc' = "wqe_loop"
  /\ UNCHANGED <<ring_buffer, queue_pos_, hardware, event, flush_queue,
                 element, state_to_send, queue_element, copied, pruVars,
                 history>>
  /\ UNCHANGED <<platform, motor_on>>

\* The planner calls queue->wait_queue_empty().
WaitQueueEmpty ==
  /\ pc = "idle"
  /\ queue.wait_queue_empty = "pru_wait_queue_empty"
  /\ WaitQueueEmptyEntry

\* pru_wait_queue_empty: one evaluation of the while condition.
WqeLoop ==
  /\ pc = "wqe_loop"
  /\ IF Drained(ring_buffer[last_insert_position].state)
       THEN /\ pc' = WaitReturn(flush_queue)
            /\ last_insert_position' = NoSlot
       ELSE /\ pc' = WaitLoopNext(pc)
            /\ UNCHANGED last_insert_position
  /\ UNCHANGED <<ring_buffer, queue_pos_, hardware, event, flush_queue,
                 element, state_to_send, queue_element, copied, pruVars,
                 history>>
  /\ UNCHANGED <<platform, motor_on>>

WqeWaitEvent ==
  /\ pc = "wqe_wait"
  /\ event
  /\ pc' = WaitLoopNext(pc)
  /\ UNCHANGED <<ring_buffer, queue_pos_, hardware, event, flush_queue,
                 hostLocals, pruVars, history>>
  /\ UNCHANGED <<platform, motor_on>>

WqeClearEvent ==
  /\ pc = "wqe_clear"
  /\ event' = FALSE
  /\ pc' = WaitLoopNext(pc)
  /\ UNCHANGED <<ring_buffer, queue_pos_, hardware, flush_queue, hostLocals,
                 pruVars, history>>
  /\ UNCHANGED <<platform, motor_on>>

---------------------------------------------------------------------------
(* pru_motor_enable_nowait. *)

\* The planner calls queue->motor_enable(on).
MotorEnable(on) ==
  /\ pc = "idle"
  /\ queue.motor_enable = "pru_motor_enable_nowait"
  /\ gpio_1_dataout' = MotorEnableValue(on)
  /\ UNCHANGED <<ring_buffer, queue_pos_, gpio_0, gpio_1, pru_enabled,
                 pruss_open, event, pc, flush_queue, hostLocals, pruVars,
                 history>>
  /\ motor_on' = <<on>>
  /\ UNCHANGED platform

---------------------------------------------------------------------------
(* pru_shutdown. *)

\* end_element.state
EndElementState_Filled == STATE_FILLED

EndElementState == STATE_EXIT

\* The planner calls queue->shutdown(flush).  With flush the call runs into
\* pru_enqueue_segment(&end_element).
Shutdown(flush) ==
  /\ pc = "idle"
  /\ queue.shutdown = "pru_shutdown"
  /\ IF flush
       THEN /\ flush_queue' = "flush"
            /\ EnqueueEntry([ZeroSegment EXCEPT !.state = EndElementState])
       ELSE /\ flush_queue' = "noflush"
            /\ pc' = "sd_disable"
            /\ UNCHANGED <<ring_buffer, queue_pos_, hardware, event,
                           hostLocals, pruVars, history, platform, motor_on>>

\* pru_shutdown calls pru_wait_queue_empty() after the sentinel is enqueued.
SdWaitQueueEmpty ==
  /\ pc = "wqe_enter"
  /\ WaitQueueEmptyEntry

\* prussdrv_pru_disable(PRU_NUM)
SdDisable ==
  /\ pc = "sd_disable"
  /\ pru_enabled' = FALSE
  /\ pc' = "sd_exit"
  /\ UNCHANGED <<ring_buffer, queue_pos_, gpio_1_dataout, gpio_0, gpio_1,
                 pruss_open, event, flush_queue, hostLocals, pruVars, history>>
  /\ UNCHANGED <<platform, motor_on>>

\* prussdrv_exit()
SdExit ==
  /\ pc = "sd_exit"
  /\ pruss_open' = FALSE
  /\ pc' = "sd_motor_enable"
  /\ UNCHANGED <<ring_buffer, queue_pos_, gpio_1_dataout, gpio_0, gpio_1,
                 pru_enabled, event, flush_queue, hostLocals, pruVars, history>>
  /\ UNCHANGED <<platform, motor_on>>

\* pru_motor_enable_nowait(0)
SdMotorEnable ==
  /\ pc = "sd_motor_enable"
  /\ gpio_1_dataout' = MotorEnableValue(FALSE)
  /\ pc' = "sd_unmap"
  /\ UNCHANGED <<ring_buffer, queue_pos_, gpio_0, gpio_1, pru_enabled,
                 pruss_open, event, flush_queue, hostLocals, pruVars, history>>
  /\ motor_on' = <<FALSE>>
  /\ UNCHANGED platform

\* unmap_gpio(), and the return of pru_shutdown.  The session ends here: the
\* registers and the PRU memory are unmapped, and no operation of the queue
\* is defined from then on.
SdUnmap ==
  /\ pc = "sd_unmap"
  /\ gpio_0' = "NULL"
  /\ gpio_1' = "NULL"
  /\ pc' = "stopped"
  /\ UNCHANGED <<ring_buffer, queue_pos_, gpio_1_dataout, pru_enabled,
                 pruss_open, event, flush_queue, hostLocals, pruVars, history>>
  /\ UNCHANGED <<platform, motor_on>>

---------------------------------------------------------------------------
(* The PRU firmware (motor-interface-pru.p, loaded by init_pru_motion_queue):*)
(* it polls the slots in the order 0 .. QUEUE_LEN-1, wrapping; it executes  *)
(* a slot whose state is not STATE_EMPTY, then marks the slot STATE_EMPTY   *)
(* and raises PRU_EVTOUT_0; after a STATE_EXIT slot it halts.               *)

\* The firmware reads the state of its slot and finds work.
PruFetch ==
  /\ pru_enabled
  /\ pru_pc = "poll"
  /\ ring_buffer[pru_pos].state /= STATE_EMPTY
  /\ pru_pc' = "run"
  /\ UNCHANGED <<ring_buffer, queue_pos_, hardware, event, pc, flush_queue,
                 hostLocals, pru_pos, history>>
  /\ UNCHANGED <<platform, motor_on>>

\* The firmware reads the segment, executes it, frees the slot and signals
\* the host.
PruFinish ==
  /\ pru_enabled
  /\ pru_pc = "run"
  /\ consumed' = Append(consumed, ring_buffer[pru_pos])
  /\ ring_buffer' = [ring_buffer EXCEPT ![pru_pos].state = STATE_EMPTY]
  /\ event' = TRUE
  /\ pru_pos' = (pru_pos + 1) % QUEUE_LEN
  /\ pru_pc' = IF ring_buffer[pru_pos].state = STATE_EXIT THEN "halted" ELSE "poll"
  /\ UNCHANGED <<queue_pos_, hardware, pc, flush_queue, hostLocals, arg,
                 enqueued, written, owner, nwrites>>
  /\ UNCHANGED <<platform, motor_on>>

---------------------------------------------------------------------------

Host ==
  \/ \E seg \in InputSegments : Enqueue(seg)
  \/ NqeLoop
  \/ NqeWaitEvent
  \/ NqeClearEvent
  \/ \E f \in Fields : EnqCopyField(f)
  \/ EnqFlip
  \/ WaitQueueEmpty
  \/ WqeLoop
  \/ WqeWaitEvent
  \/ WqeClearEvent
  \/ \E on \in BOOLEAN : MotorEnable(on)
  \/ \E flush \in BOOLEAN : Shutdown(flush)
  \/ SdWaitQueueEmpty
  \/ SdDisable
  \/ SdExit
  \/ SdMotorEnable
  \/ SdUnmap

Pru == PruFetch \/ PruFinish

Next == Host \/ Pru

Spec == Init /\ [][Next]_vars

\* The host thread, once inside a call of the facade, keeps being scheduled:
\* it runs whenever it is not blocked in prussdrv_pru_wait_event.
HostRunning == pc /= "idle" /\ Host

FairSpec == Spec /\ WF_vars(HostRunning)

\* The PRU, too, keeps running: while it is enabled and has not halted, it
\* executes the slot it finds occupied, frees it and raises the event.
LiveSpec == Spec /\ WF_vars(HostRunning) /\ WF_vars(Pru)

---------------------------------------------------------------------------
(* init_pru_motion_queue, map_gpio and map_pru_communication: the startup  *)
(* of the hardware queue, one step per system or library call.  The PRU    *)
(* is not running before prussdrv_pru_enable, so no step of it interleaves *)
(* with the steps before that call.                                        *)

\* Number of dummy_enqueue calls in one session.
MaxDummyCalls == 5

\* The operations before an init function has written them.
UnboundQueue ==
  [enqueue |-> "unset", wait_queue_empty |-> "unset",
   motor_enable |-> "unset", shutdown |-> "unset"]

\* The operations init_dummy_motion_queue binds.
DummyQueue_PruEnqueue ==
  [enqueue |-> "pru_enqueue_segment",
   wait_queue_empty |-> "dummy_wait_queue_empty",
   motor_enable |-> "dummy_motor_enable",
   shutdown |-> "dummy_shutdown"]

DummyQueue ==
  [enqueue |-> "dummy_enqueue",
   wait_queue_empty |-> "dummy_wait_queue_empty",
   motor_enable |-> "dummy_motor_enable",
   shutdown |-> "dummy_shutdown"]

\* Values gpio_1[GPIO_DATAOUT/4] may hold when the program starts: the
\* enable bit and another bit of the register, each set or clear.
PriorDataout ==
  {0, 1, 2 ^ MOTOR_ENABLE_GPIO1_BIT, 2 ^ MOTOR_ENABLE_GPIO1_BIT + 1}

\* What a slot of the PRU's data memory may hold before bzero().
StaleSegments == {ZeroSegment, Segment(STATE_FILLED, 1, 2)}

\* The state before the program calls an init function.
StartupInit ==
  /\ ring_buffer \in [Slots -> StaleSegments]
  /\ queue_pos_ = 0
  /\ gpio_1_dataout \in PriorDataout
  /\ gpio_0 = "NULL"
  /\ gpio_1 = "NULL"
  /\ pru_enabled = FALSE
  /\ pruss_open = FALSE
  /\ event = FALSE
  /\ pc = "start"
  /\ flush_queue = "none"
  /\ element = ZeroSegment
  /\ state_to_send = STATE_EMPTY
  /\ queue_element = NoSlot
  /\ copied = {}
  /\ last_insert_position = NoSlot
  /\ pru_pc = "poll"
  /\ pru_pos = 0
  /\ arg = ZeroSegment
  /\ enqueued = <<>>
  /\ written = <<>>
  /\ consumed = <<>>
  /\ owner = [i \in Slots |-> ZeroSegment]
  /\ nwrites = 0
  /\ mem_fd = "none"
  /\ gpio_oe = "reset"
  /\ pru_data_ = "NULL"
  /\ firmware = FALSE
  /\ queue = UnboundQueue
  /\ init_result = <<>>
  /\ motor_on = <<>>
  /\ failed = "none"
  /\ init_called = "none"
  /\ ndummy = 0

\* What no step of the startup changes.
session == <<event, flush_queue, hostLocals, pruVars, history, ndummy>>

\* The order of the steps of init_pru_motion_queue after open("/dev/mem"):
\* the position of the host before each of them.
InitOrder_EnableBeforeMap ==
  <<"map_gpio_0", "map_gpio_1", "map_gpio_close", "init_oe",
    "init_motor_off", "init_open", "init_enable", "init_map_pru",
    "init_write_memory", "init_bind">>

InitOrder ==
  <<"map_gpio_0", "map_gpio_1", "map_gpio_close", "init_oe",
    "init_motor_off", "init_open", "init_map_pru", "init_write_memory",
    "init_enable", "init_bind">>

\* The position after the step at p succeeded; "idle" after the last one.
InitAfter(p) ==
  LET k == CHOOSE j \in 1 .. Len(InitOrder) : InitOrder[j] = p
  IN  IF k = Len(InitOrder) THEN "idle" ELSE InitOrder[k + 1]

InitPcs == {"start"} \cup {InitOrder[k] : k \in 1 .. Len(InitOrder)}

\* The step succeeded: init_pru_motion_queue goes on.
InitGoesOn ==
  /\ pc' = InitAfter(pc)
  /\ UNCHANGED <<init_result, failed>>

\* The step failed: init_pru_motion_queue prints a message and returns ret.
InitFails(step, ret) ==
  /\ pc' = "init_failed"
  /\ init_result' = <<ret>>
  /\ failed' = step

\* What mmap() of /dev/mem can return.
MmapResults(fd) ==
  IF fd = "open" THEN {"mapped", "MAP_FAILED"} ELSE {"MAP_FAILED"}

\* The checks "gpio_0 == MAP_FAILED" and "gpio_1 == MAP_FAILED", negated.
MapGpioOk_Unchecked(m) == TRUE

MapGpioOk(m) == m /= "MAP_FAILED"

\* What prussdrv_open can return.
PrussdrvOpenResults == {0, -1}

\* What prussdrv_map_prumem can leave in result.
MapPrumemResults == {"mapped", "NULL"}

\* The program calls init_pru_motion_queue; map_gpio: open("/dev/mem").
MapGpioOpen ==
  /\ pc = "start"
  /\ init_called' = "pru"
  /\ \E fd \in {"open", "invalid"} : mem_fd' = fd
  /\ pc' = InitOrder[1]
  /\ UNCHANGED <<ring_buffer, queue_pos_, hardware, session, gpio_oe,
                 pru_data_, firmware, queue, init_result, motor_on, failed>>

\* map_gpio: mmap() of GPIO-0.  On MAP_FAILED map_gpio returns 0, and
\* init_pru_motion_queue returns 1.
MapGpio0 ==
  /\ pc = "map_gpio_0"
  /\ \E m \in MmapResults(mem_fd) :
       /\ gpio_0' = m
       /\ IF MapGpioOk(m) THEN InitGoesOn ELSE InitFails("map_gpio", 1)
  /\ UNCHANGED <<ring_buffer, queue_pos_, gpio_1_dataout, gpio_1,
                 pru_enabled, pruss_open, session, mem_fd, gpio_oe,
                 pru_data_, firmware, queue, motor_on, init_called>>

\* map_gpio: mmap() of GPIO-1.  On MAP_FAILED map_gpio returns 0 as it is.
MapGpio1 ==
  /\ pc = "map_gpio_1"
  /\ \E m \in MmapResults(mem_fd) :
       /\ gpio_1' = m
       /\ IF MapGpioOk(m) THEN InitGoesOn ELSE InitFails("map_gpio", 1)
  /\ UNCHANGED <<ring_buffer, queue_pos_, gpio_1_dataout, gpio_0,
                 pru_enabled, pruss_open, session, mem_fd, gpio_oe,
                 pru_data_, firmware, queue, motor_on, init_called>>

\* map_gpio: close(fd); return 1.
MapGpioClose ==
  /\ pc = "map_gpio_close"
  /\ mem_fd' = "closed"
  /\ InitGoesOn
  /\ UNCHANGED <<ring_buffer, queue_pos_, hardware, session, gpio_oe,
                 pru_data_, firmware, queue, motor_on, init_called>>

\* gpio_0[GPIO_OE/4] = ...; gpio_1[GPIO_OE/4] = ...
InitOutputEnable ==
  /\ pc = "init_oe"
  /\ gpio_oe' = "outputs"
  /\ InitGoesOn
  /\ UNCHANGED <<ring_buffer, queue_pos_, hardware, session, mem_fd,
                 pru_data_, firmware, queue, motor_on, init_called>>

\* pru_motor_enable_nowait(0): motors off initially.
InitMotorOff ==
  /\ pc = "init_motor_off"
  /\ gpio_1_dataout' = MotorEnableValue(FALSE)
  /\ motor_on' = <<FALSE>>
  /\ InitGoesOn
  /\ UNCHANGED <<ring_buffer, queue_pos_, gpio_0, gpio_1, pru_enabled,
                 pruss_open, session, mem_fd, gpio_oe, pru_data_, firmware,
                 queue, init_called>>

\* prussdrv_init(); ret = prussdrv_open(PRU_EVTOUT_0); if (ret) return ret.
InitPrussdrvOpen ==
  /\ pc = "init_open"
  /\ \E ret \in PrussdrvOpenResults :
       IF ret = 0
         THEN /\ pruss_open' = TRUE
              /\ InitGoesOn
         ELSE /\ InitFails("prussdrv_open", ret)
              /\ UNCHANGED pruss_open
  /\ UNCHANGED <<ring_buffer, queue_pos_, gpio_1_dataout, gpio_0, gpio_1,
                 pru_enabled, session, mem_fd, gpio_oe, pru_data_, firmware,
                 queue, motor_on, init_called>>

\* prussdrv_pruintc_init(); map_pru_communication().  The function zeroes
\* *result and writes the slots' states before anything looks at result:
\* with result NULL these stores are undefined.  Either the process is
\* killed by SIGSEGV, or the stores go by and the function returns NULL, on
\* which init_pru_motion_queue returns 1.
MapPruCommunication ==
  /\ pc = "init_map_pru"
  /\ \E result \in MapPrumemResults :
       IF result /= "NULL"
         THEN /\ ring_buffer' =
                   [i \in Slots |-> [ZeroSegment EXCEPT !.state = InitSlotState(i)]]
              /\ pru_data_' = result
              /\ queue_pos_' = 0
              /\ InitGoesOn
         ELSE /\ \/ /\ pc' = "crashed"
                    /\ failed' = "map_pru_communication"
                    /\ UNCHANGED <<init_result, pru_data_, queue_pos_>>
                 \/ /\ InitFails("map_pru_communication", 1)
                    /\ pru_data_' = result
                    /\ queue_pos_' = 0
              /\ UNCHANGED ring_buffer
  /\ UNCHANGED <<hardware, session, mem_fd, gpio_oe, firmware, queue,
                 motor_on, init_called>>

\* prussdrv_pru_write_memory(PRUSS0_PRU0_IRAM, 0, PRUcode, sizeof(PRUcode))
InitWriteMemory ==
  /\ pc = "init_write_memory"
  /\ firmware' = TRUE
  /\ InitGoesOn
  /\ UNCHANGED <<ring_buffer, queue_pos_, hardware, session, mem_fd,
                 gpio_oe, pru_data_, queue, motor_on, init_called>>

\* prussdrv_pru_enable(0): the PRU starts to run what its instruction
\* memory holds.
InitEnable ==
  /\ pc = "init_enable"
  /\ pru_enabled' = TRUE
  /\ InitGoesOn
  /\ UNCHANGED <<ring_buffer, queue_pos_, gpio_1_dataout, gpio_0, gpio_1,
                 pruss_open, session, mem_fd, gpio_oe, pru_data_, firmware,
                 queue, motor_on, init_called>>

\* queue->enqueue = ...; ...; return 0.
InitBind ==
  /\ pc = "init_bind"
  /\ queue' = PruQueue
  /\ init_result' = <<0>>
  /\ pc' = InitAfter(pc)
  /\ UNCHANGED <<ring_buffer, queue_pos_, hardware, session, mem_fd,
                 gpio_oe, pru_data_, firmware, motor_on, failed, init_called>>

InitPruMotionQueue ==
  \/ MapGpioOpen
  \/ MapGpio0
  \/ MapGpio1
  \/ MapGpioClose
  \/ InitOutputEnable
  \/ InitMotorOff
  \/ InitPrussdrvOpen
  \/ MapPruCommunication
  \/ InitWriteMemory
  \/ InitEnable
  \/ InitBind

---------------------------------------------------------------------------
(* The dummy MotionQueue. *)

\* The program calls init_dummy_motion_queue.
InitDummyMotionQueue ==
  /\ pc = "start"
  /\ queue' = DummyQueue
  /\ init_called' = "dummy"
  /\ pc' = "idle"
  /\ UNCHANGED <<ring_buffer, queue_pos_, hardware, session, mem_fd,
                 gpio_oe, pru_data_, firmware, init_result, motor_on, failed>>

\* What every dummy operation leaves as it is: its body is empty.
DummyFrame ==
  UNCHANGED <<ring_buffer, queue_pos_, hardware, event, pc, flush_queue,
              state_to_send, queue_element, copied, last_insert_position,
              pruVars, enqueued, written, consumed, owner, nwrites,
              mem_fd, gpio_oe, pru_data_, firmware, queue, init_result,
              motor_on, failed, init_called>>

\* The planner calls queue->enqueue(&seg): dummy_enqueue.
DummyEnqueue(seg) ==
  /\ pc = "idle"
  /\ queue.enqueue = "dummy_enqueue"
  /\ ndummy < MaxDummyCalls
  /\ ndummy' = ndummy + 1
  /\ arg' = seg
  /\ element' = seg
  /\ DummyFrame

\* The planner calls queue->wait_queue_empty(): dummy_wait_queue_empty.
DummyWaitQueueEmpty ==
  /\ pc = "idle"
  /\ queue.wait_queue_empty = "dummy_wait_queue_empty"
  /\ UNCHANGED <<arg, element, ndummy>>
  /\ DummyFrame

\* The planner calls queue->motor_enable(on): dummy_motor_enable.
DummyMotorEnable(on) ==
  /\ pc = "idle"
  /\ queue.motor_enable = "dummy_motor_enable"
  /\ UNCHANGED <<arg, element, ndummy>>
  /\ DummyFrame

\* The planner calls queue->shutdown(flush): dummy_shutdown.
DummyShutdown(flush) ==
  /\ pc = "idle"
  /\ queue.shutdown = "dummy_shutdown"
  /\ UNCHANGED <<arg, element, ndummy>>
  /\ DummyFrame

Dummy ==
  \/ InitDummyMotionQueue
  \/ \E seg \in InputSegments : DummyEnqueue(seg)
  \/ DummyWaitQueueEmpty
  \/ \E on \in BOOLEAN : DummyMotorEnable(on)
  \/ \E flush \in BOOLEAN : DummyShutdown(flush)

\* The program from its start: it calls one of the init functions and then
\* the operations the function bound.
StartupNext == InitPruMotionQueue \/ Dummy \/ Next

StartupSpec == StartupInit /\ [][StartupNext]_vars

---------------------------------------------------------------------------
(* Properties. *)

IsPrefix(s, t) ==
  /\ Len(s) <= Len(t)
  /\ \A k \in 1 .. Len(s) : s[k] = t[k]

\* Host stores one pru_enqueue_segment makes: the struct copy and the flip.
StoresPerEnqueue == Cardinality(Fields) + 1

NqeLoopPcs == {"nqe_loop", "nqe_wait", "nqe_clear"}
WqeLoopPcs == {"wqe_loop", "wqe_wait", "wqe_clear"}
SdPcs == {"sd_disable", "sd_exit", "sd_motor_enable", "sd_unmap", "stopped"}

AllEmpty == \A i \in Slots : ring_buffer[i].state = STATE_EMPTY

\* C1: write-then-flip.  Every slot whose state is not STATE_EMPTY holds, in
\* every field, the values of the segment passed to the enqueue call that
\* took the slot: no value of a prior occupant or of the initialisation.
C1_WriteThenFlip ==
  \A i \in Slots :
    ring_buffer[i].state /= STATE_EMPTY => ring_buffer[i] = owner[i]

\* A slot filled a second time, with other values than its prior occupant,
\* is visible to the PRU.
C1_Witness ==
  /\ Len(written) > QUEUE_LEN
  /\ \E i \in Slots :
       /\ ring_buffer[i].state /= STATE_EMPTY
       /\ ring_buffer[i] = written[Len(written)]
       /\ \A f \in DataFields :
            written[Len(written) - QUEUE_LEN][f] /= ring_buffer[i][f]

\* C2: the segments the PRU executes are a prefix of the segments enqueued,
\* in enqueue order: nothing is reordered, skipped, merged or repeated.
C2_ConsumedIsPrefix == IsPrefix(consumed, enqueued)

\* The PRU has executed segments from a second pass over the ring buffer.
C2_Witness ==
  /\ Len(consumed) > QUEUE_LEN
  /\ consumed[1] /= consumed[QUEUE_LEN + 1]
  /\ consumed[1] /= consumed[2]

\* The (QUEUE_LEN + 1)-th pru_enqueue_segment call is in progress.
WrapCallInProgress ==
  /\ Len(enqueued) = QUEUE_LEN + 1
  /\ Len(written) = QUEUE_LEN

\* The safety part of C3: what holds while the call is blocked and when it
\* has returned.
BackpressureInv ==
  /\ (WrapCallInProgress /\ ring_buffer[0].state /= STATE_EMPTY)
       => /\ pc \in NqeLoopPcs
          /\ queue_pos_ = 0
          /\ nwrites = QUEUE_LEN * StoresPerEnqueue
          /\ \A i \in Slots : ring_buffer[i] = enqueued[i + 1]
  /\ (WrapCallInProgress /\ ring_buffer[0].state = STATE_EMPTY /\ pc = "nqe_wait")
       => event
  /\ (Len(enqueued) = QUEUE_LEN + 1 /\ Len(written) = QUEUE_LEN + 1)
       => /\ queue_pos_ = 1
          /\ Len(consumed) >= 1
          /\ nwrites = (QUEUE_LEN + 1) * StoresPerEnqueue
          /\ Len(consumed) <= QUEUE_LEN => ring_buffer[0] = enqueued[QUEUE_LEN + 1]

\* C3: backpressure.  After QUEUE_LEN enqueues the next call, while slot 0 is
\* not STATE_EMPTY, stays in the wait loop of next_queue_element and has
\* stored nothing and not moved the cursor; once the PRU has marked slot 0
\* empty the call completes; and when the call has returned, the cursor is 1
\* and slot 0 holds the new segment until the PRU executes it.
C3_Backpressure ==
  /\ []BackpressureInv
  /\ (WrapCallInProgress /\ ring_buffer[0].state = STATE_EMPTY)
        ~> (Len(written) = QUEUE_LEN + 1)

\* The call blocked on the full buffer has returned after the PRU emptied
\* slot 0 and nothing else.
C3_Witness ==
  /\ Len(enqueued) = QUEUE_LEN + 1
  /\ Len(written) = QUEUE_LEN + 1
  /\ Len(consumed) = 1
  /\ pc = "idle"
  /\ queue_pos_ = 1
  /\ ring_buffer[0] = enqueued[QUEUE_LEN + 1]
  /\ ring_buffer[0] /= enqueued[1]

\* C4: with no slot emptied by the PRU yet, the first QUEUE_LEN enqueue
\* calls never reach prussdrv_pru_wait_event.
C4_NoBlockingWhileRoom ==
  (Len(consumed) = 0 /\ Len(enqueued) <= QUEUE_LEN)
    => pc \notin {"nqe_wait", "nqe_clear"}

\* QUEUE_LEN enqueue calls have returned and the PRU has emptied nothing.
C4_Witness ==
  /\ Len(written) = QUEUE_LEN
  /\ Len(consumed) = 0
  /\ pc = "idle"
  /\ \A i \in Slots : ring_buffer[i].state /= STATE_EMPTY

\* C5: pru_wait_queue_empty returns only when every slot of the ring buffer
\* reads STATE_EMPTY.
C5_WaitDrainReturnsEmpty ==
  [][(pc \in WqeLoopPcs /\ pc' \notin WqeLoopPcs) => AllEmpty /\ AllEmpty']_vars

\* pru_wait_queue_empty is about to return after the cursor has wrapped and
\* the PRU has executed everything.
C5_Witness ==
  /\ pc = "wqe_loop"
  /\ flush_queue = "none"
  /\ Len(written) > QUEUE_LEN
  /\ Len(consumed) = Len(written)
  /\ ring_buffer[last_insert_position].state = STATE_EMPTY

\* The positions of the written segments whose state is STATE_EXIT.
ExitsWritten == {k \in 1 .. Len(written) : written[k].state = STATE_EXIT}
ExitsConsumed == {k \in 1 .. Len(consumed) : consumed[k].state = STATE_EXIT}

\* pru_shutdown(flush_queue = 1) has stored its sentinel's state.
SentinelWritten ==
  /\ flush_queue = "flush"
  /\ pc \in {"wqe_enter"} \cup WqeLoopPcs \cup SdPcs

\* C6: when pru_shutdown(1) has passed its flush, the PRU has executed
\* exactly one STATE_EXIT segment, as the last one after every segment
\* enqueued before the call; and from the moment the sentinel is written the
\* host stores nothing more into the ring buffer.
C6_ShutdownFlushSentinel ==
  /\ (flush_queue = "flush" /\ pc \in SdPcs)
       => /\ consumed = enqueued
          /\ Cardinality(ExitsConsumed) = 1
          /\ consumed[Len(consumed)] = [ZeroSegment EXCEPT !.state = STATE_EXIT]
  /\ SentinelWritten
       => /\ written = enqueued
          /\ written[Len(written)] = [ZeroSegment EXCEPT !.state = STATE_EXIT]
          /\ nwrites = Len(written) * StoresPerEnqueue

\* A flushing shutdown has completed after the cursor wrapped.
C6_Witness ==
  /\ flush_queue = "flush"
  /\ pc = "stopped"
  /\ Len(consumed) > QUEUE_LEN + 1

\* C7 as stated: over every sequence of facade calls at most one STATE_EXIT
\* segment is written to the ring buffer, and none is written after it.
C7_AtMostOneExit ==
  /\ Cardinality(ExitsWritten) <= 1
  /\ \A k \in ExitsWritten : k = Len(written)

\* The planner has passed no segment with STATE_EXIT to enqueue: the only
\* one enqueued, if any, is the sentinel of pru_shutdown.
PlannerSentNoExit ==
  \A k \in 1 .. Len(enqueued) :
    enqueued[k].state = STATE_EXIT => (flush_queue = "flush" /\ k = Len(enqueued))

\* C7, amended: in a session whose enqueue calls pass no STATE_EXIT, the only
\* STATE_EXIT segment written is the sentinel of pru_shutdown(1): none before
\* it is written, one from then on, and it is the last segment written.
C7_AtMostOneExit_Amended ==
  PlannerSentNoExit
    => /\ Cardinality(ExitsWritten) = (IF SentinelWritten THEN 1 ELSE 0)
       /\ \A k \in ExitsWritten : k = Len(written)
       /\ SentinelWritten => nwrites = Len(written) * StoresPerEnqueue

\* The sentinel of pru_shutdown(1) is in the ring buffer behind segments of
\* the planner.
C7_Witness ==
  /\ PlannerSentNoExit
  /\ SentinelWritten
  /\ Len(written) > QUEUE_LEN
  /\ Cardinality(ExitsWritten) = 1

\* C8: enqueue with a segment whose state is STATE_EMPTY ends in the assertion
\* failure in that very step: no slot is stored to, the cursor, the event and
\* the caller's segment are as before, the wait is never entered; and the
\* process does nothing afterwards.
C8_EmptyStateAborts ==
  /\ [][(pc = "idle" /\ pc' \in {"nqe_loop", "aborted"} /\ arg'.state = STATE_EMPTY)
          => /\ pc' = "aborted"
             /\ element' = arg'
             /\ UNCHANGED <<ring_buffer, queue_pos_, event, nwrites, enqueued,
                            written, hardware>>]_vars
  /\ [][pc = "aborted"
          => /\ pc' = "aborted"
             /\ UNCHANGED <<queue_pos_, nwrites, element, hardware>>]_vars

\* The assertion failed in a session with segments in the ring buffer.
C8_Witness ==
  /\ pc = "aborted"
  /\ element = arg
  /\ element.state = STATE_EMPTY
  /\ element.direction_bits /= 0
  /\ \E i \in Slots : ring_buffer[i].state /= STATE_EMPTY

\* The PRU has stopped for good: it halted after a STATE_EXIT segment.
PruStopped == pru_pc = "halted"

\* C9: no timeout and no cancellation.  The host leaves the wait loop of
\* next_queue_element or of pru_wait_queue_empty only in a step that reads
\* the awaited slot as STATE_EMPTY, and only to continue the call; inside the
\* loop it changes neither the cursor nor any slot; and once it is in the
\* loop with the awaited slot occupied and the PRU stopped, it stays there.
C9_NoTimeout ==
  /\ [][(pc \in NqeLoopPcs /\ pc' \notin NqeLoopPcs)
          => /\ pc = "nqe_loop"
             /\ ring_buffer[queue_pos_].state = STATE_EMPTY
             /\ pc' = "enq_copy"]_vars
  /\ [][(pc \in WqeLoopPcs /\ pc' \notin WqeLoopPcs)
          => /\ pc = "wqe_loop"
             /\ ring_buffer[last_insert_position].state = STATE_EMPTY
             /\ pc' \in {"idle", "sd_disable"}]_vars
  /\ [][(pc \in NqeLoopPcs \cup WqeLoopPcs /\ pc' \in NqeLoopPcs \cup WqeLoopPcs)
          => UNCHANGED <<queue_pos_, nwrites, last_insert_position>>]_vars
  /\ [][(PruStopped /\ pc \in NqeLoopPcs
           /\ ring_buffer[queue_pos_].state /= STATE_EMPTY)
          => (pc' \in NqeLoopPcs /\ ring_buffer'[queue_pos_'].state /= STATE_EMPTY)]_vars
  /\ [][(PruStopped /\ pc \in WqeLoopPcs
           /\ ring_buffer[last_insert_position].state /= STATE_EMPTY)
          => (pc' \in WqeLoopPcs
              /\ ring_buffer'[last_insert_position'].state /= STATE_EMPTY)]_vars

\* An enqueue is blocked for good: the PRU has halted, the awaited slot is
\* occupied and no event is pending.
C9_Witness ==
  /\ pc = "nqe_wait"
  /\ pru_pc = "halted"
  /\ ~event
  /\ ring_buffer[queue_pos_].state /= STATE_EMPTY

\* The state of the hardware at each step of the teardown of pru_shutdown.
TeardownOrder ==
  /\ pc \notin SdPcs => (pru_enabled /\ pruss_open /\ gpio_mapped)
  /\ pc = "sd_disable" => (pru_enabled /\ pruss_open /\ gpio_mapped)
  /\ pc = "sd_exit" => (~pru_enabled /\ pruss_open /\ gpio_mapped)
  /\ pc = "sd_motor_enable" => (~pru_enabled /\ ~pruss_open /\ gpio_mapped)
  /\ pc = "sd_unmap" => /\ ~pru_enabled /\ ~pruss_open /\ gpio_mapped
                        /\ gpio_1_dataout = 2 ^ MOTOR_ENABLE_GPIO1_BIT
  /\ pc = "stopped" => /\ ~pru_enabled /\ ~pruss_open /\ ~gpio_mapped
                       /\ gpio_1_dataout = 2 ^ MOTOR_ENABLE_GPIO1_BIT

\* C10: shutdown ordering.  With flush the PRU is disabled only when the
\* sentinel and everything before it are executed and every slot is empty;
\* the teardown is disable, exit, enable line inactive, unmap, in this order;
\* without flush nothing is enqueued or stored and no wait is entered.
C10_ShutdownOrder ==
  /\ [](flush_queue = "flush" /\ ~pru_enabled
          => /\ AllEmpty
             /\ consumed = enqueued
             /\ consumed[Len(consumed)].state = STATE_EXIT)
  /\ []TeardownOrder
  /\ [](flush_queue = "noflush" => pc \in SdPcs)
  /\ [][flush_queue' = "noflush"
          => UNCHANGED <<queue_pos_, nwrites, enqueued, written>>]_vars

\* A shutdown without flush has completed with segments left in the ring
\* buffer.
C10_Witness ==
  /\ flush_queue = "noflush"
  /\ pc = "stopped"
  /\ \E i \in Slots : ring_buffer[i].state /= STATE_EMPTY
  /\ Len(consumed) < Len(written)

---------------------------------------------------------------------------
(* Properties of the startup, under StartupSpec. *)

\* What a failed startup leaves behind: nothing of the later steps, and
\* everything of the earlier ones.
FailedStartupState ==
  /\ ~firmware
  /\ ~pru_enabled
  /\ queue = UnboundQueue
  /\ failed \in {"prussdrv_open", "map_pru_communication"} =>
       /\ gpio_mapped
       /\ gpio_oe = "outputs"
       /\ motor_on = <<FALSE>>
  /\ failed = "map_pru_communication" => pruss_open

\* C11: startup failure.  Whenever map_gpio, prussdrv_open or the mapping of
\* the communication block has failed, init_pru_motion_queue has returned a
\* nonzero result, the firmware is neither loaded nor started, none of the
\* four operations is bound, and the steps that succeeded are not undone.
C11_StartupFailure ==
  failed /= "none" =>
    /\ pc = "init_failed"
    /\ init_result \notin {<<>>, <<0>>}
    /\ FailedStartupState

\* The same for the failures init_pru_motion_queue gets to see: the ones of
\* map_gpio and of prussdrv_open.
C11_DetectedFailure ==
  failed \in {"map_gpio", "prussdrv_open"} =>
    /\ pc = "init_failed"
    /\ init_result \notin {<<>>, <<0>>}
    /\ FailedStartupState

\* C12: the dummy queue.  After init_dummy_motion_queue, whatever the calls
\* of the four operations and however many enqueues: no step writes a GPIO
\* register, a slot of the ring buffer, queue_pos_ or the PRU event, the
\* caller's segment stays as the caller passed it, and the host is never
\* inside a call, so no call blocks.
C12_NullFacade ==
  /\ [](init_called = "dummy" => pc = "idle" /\ element = arg)
  /\ [][init_called = "dummy"
          => UNCHANGED <<ring_buffer, queue_pos_, hardware, gpio_oe, event,
                         nwrites, pruVars, written, consumed, pru_data_,
                         firmware, mem_fd>>]_vars

\* More dummy_enqueue calls than the ring buffer has slots have returned,
\* the last with a segment the hardware queue would have stored, over a PRU
\* data memory whose slots all look occupied.
C12_Witness ==
  /\ init_called = "dummy"
  /\ ndummy > QUEUE_LEN
  /\ element.state = STATE_FILLED
  /\ \A i \in Slots : ring_buffer[i].state /= STATE_EMPTY

\* The enable bit of a value of gpio_1[GPIO_DATAOUT/4].
EnableBit(v) == (v \div (2 ^ MOTOR_ENABLE_GPIO1_BIT)) % 2

\* C13: inverted logic of the enable line.  After pru_motor_enable_nowait(on)
\* with on true the enable bit of gpio_1[GPIO_DATAOUT/4] is 0, with on false
\* it is 1, whatever the register held before: from the first call in
\* init_pru_motion_queue, over any register value, to the last in
\* pru_shutdown.
C13_MotorEnableInverted ==
  /\ motor_on = <<TRUE>> => EnableBit(gpio_1_dataout) = 0
  /\ motor_on = <<FALSE>> => EnableBit(gpio_1_dataout) = 1

\* The planner's motor_enable(true) has cleared the enable bit that the
\* startup had set.
C13_Witness ==
  /\ init_result = <<0>>
  /\ pc = "idle"
  /\ motor_on = <<TRUE>>
  /\ EnableBit(gpio_1_dataout) = 0

---------------------------------------------------------------------------
(* Properties of the running queue: ownership, cursor, occupancy, indices. *)

\* The PRU has been started: it runs, or pru_shutdown has stopped it.
PruStarted == pru_enabled \/ (firmware /\ pc \in SdPcs)

\* C14: slot ownership, once the PRU has been started.  A step that changes
\* a slot whose state is not STATE_EMPTY is a step of the PRU on the slot it
\* executes, and changes only the slot's state, to STATE_EMPTY.  A step in
\* which the host stores into the ring buffer changes only the slot the
\* call acquired, which reads STATE_EMPTY before the store; the state of a
\* slot leaves STATE_EMPTY only in the flip, the last store of the call.
C14_SlotOwnership ==
  /\ [][PruStarted =>
          \A i \in Slots :
            (ring_buffer[i].state /= STATE_EMPTY /\ ring_buffer'[i] /= ring_buffer[i])
              => /\ UNCHANGED <<pc, copied, nwrites>>
                 /\ pru_pc = "run"
                 /\ pru_pos = i
                 /\ ring_buffer'[i] = [ring_buffer[i] EXCEPT !.state = STATE_EMPTY]]_vars
  /\ [][(PruStarted /\ nwrites' /= nwrites) =>
          /\ queue_element \in Slots
          /\ ring_buffer[queue_element].state = STATE_EMPTY
          /\ \A i \in Slots \ {queue_element} : ring_buffer'[i] = ring_buffer[i]]_vars
  /\ [][PruStarted =>
          \A i \in Slots :
            (ring_buffer[i].state = STATE_EMPTY /\ ring_buffer'[i].state /= STATE_EMPTY)
              => /\ pc = "enq_flip"
                 /\ pc' /= "enq_flip"
                 /\ i = queue_element
                 /\ copied = Fields]_vars

\* The host is in the middle of the struct copy into a slot used before,
\* while the PRU executes another slot.
C14_Witness ==
  /\ pc = "enq_copy"
  /\ copied /= {}
  /\ copied /= Fields
  /\ Len(written) >= QUEUE_LEN
  /\ pru_pc = "run"
  /\ pru_pos /= queue_element

\* C15: cursor discipline.  queue_pos_ changes in two steps only: the
\* reduction modulo QUEUE_LEN on entry of pru_enqueue_segment, which keeps
\* its value modulo QUEUE_LEN, and the step that reads the slot at
\* queue_pos_ as STATE_EMPTY, takes this slot and adds one.  So no step of
\* pru_wait_queue_empty, of pru_motor_enable_nowait, of the wait loop of a
\* blocked enqueue or of the PRU changes it; the n-th enqueue fills slot
\* (n - 1) % QUEUE_LEN, and between operations queue_pos_ % QUEUE_LEN is
\* the slot the next enqueue fills.
C15_CursorDiscipline ==
  /\ [][queue_pos_' /= queue_pos_ =>
          \/ /\ pc = "idle"
             /\ pc' = "nqe_loop"
             /\ queue_pos_' = queue_pos_ % QUEUE_LEN
          \/ /\ pc = "nqe_loop"
             /\ pc' = "enq_copy"
             /\ ring_buffer[queue_pos_].state = STATE_EMPTY
             /\ queue_element' = queue_pos_
             /\ queue_pos_' = queue_pos_ + 1]_vars
  /\ [](pc \in {"enq_copy", "enq_flip"}
          => queue_element = (Len(enqueued) - 1) % QUEUE_LEN)
  /\ [](pc \in {"idle"} \cup WqeLoopPcs
          => queue_pos_ % QUEUE_LEN = Len(enqueued) % QUEUE_LEN)
  /\ [](pc \in NqeLoopPcs
          => queue_pos_ = (Len(enqueued) - 1) % QUEUE_LEN)

\* An enqueue that found the ring buffer full, and saw the PRU free slot 0,
\* has taken slot 0 again: the cursor wrapped and stands at 1.
C15_Witness ==
  /\ pc = "enq_copy"
  /\ Len(enqueued) = QUEUE_LEN + 1
  /\ queue_element = 0
  /\ queue_pos_ = 1
  /\ Len(consumed) >= 1

\* The host is inside pru_enqueue_segment or pru_wait_queue_empty.
InCall ==
  pc \in NqeLoopPcs \cup {"enq_copy", "enq_flip", "wqe_enter"} \cup WqeLoopPcs

\* The consumer no longer empties occupied slots: the firmware has halted
\* on a STATE_EXIT segment and left slots behind it occupied.
ConsumerGone == pru_pc = "halted" /\ ~AllEmpty

\* C16: no lost wake-up.  With the host scheduled while it is not blocked in
\* prussdrv_pru_wait_event, and the PRU executing, freeing and signalling
\* every occupied slot in turn, the host leaves every call of
\* pru_enqueue_segment and of pru_wait_queue_empty it is in, however the
\* steps of its test / wait / clear loop interleave with those of the PRU;
\* unless the PRU has halted with slots still occupied.
C16_NoLostWakeup == InCall ~> (~InCall \/ ConsumerGone)

\* The PRU freed the awaited slot and raised the event after the wait
\* returned on an earlier event: the clear that follows wipes the only
\* pending event while no other slot is left to be freed.
C16_Witness ==
  /\ pc \in {"nqe_clear", "wqe_clear"}
  /\ event
  /\ AllEmpty
  /\ pru_pc = "poll"
  /\ Len(consumed) >= 2

\* C17: order of a successful startup.  The step that starts the PRU finds
\* both GPIO banks mapped, the pin directions set, the enable line
\* inactive, the PRU subsystem open, the firmware loaded, and the
\* communication block zeroed with every slot STATE_EMPTY and queue_pos_ 0.
\* The operations are bound only with the PRU started, in the step that
\* returns 0, which leaves the queue in the state Init.  So the PRU never
\* executes what the memory held before, and every enqueue comes after the
\* startup.
C17_StartupOrder ==
  /\ [][(~pru_enabled /\ pru_enabled') =>
          /\ gpio_mapped
          /\ gpio_oe = "outputs"
          /\ motor_on = <<FALSE>>
          /\ EnableBit(gpio_1_dataout) = 1
          /\ pruss_open
          /\ firmware
          /\ pru_data_ = "mapped"
          /\ ring_buffer = [i \in Slots |-> ZeroSegment]
          /\ queue_pos_ = 0
          /\ queue = UnboundQueue]_vars
  /\ [][(queue' /= queue /\ init_called' = "pru") =>
          /\ pru_enabled
          /\ queue' = PruQueue
          /\ init_result' = <<0>>
          /\ Init']_vars
  /\ [](init_called = "pru" => IsPrefix(consumed, enqueued))
  /\ [](enqueued /= <<>> => (init_result = <<0>> /\ pc \notin InitPcs))

\* The startup has succeeded, and the PRU has executed the first segment
\* enqueued, which is none of the segments the memory may have held.
C17_Witness ==
  /\ init_result = <<0>>
  /\ Len(consumed) >= 1
  /\ consumed[1] = enqueued[1]
  /\ consumed[1] \notin StaleSegments

\* C18: partial failure of map_gpio.  When the mmap() of GPIO-1 has failed,
\* the startup has been given up with result 1, and nothing is cleaned up:
\* GPIO-0 is still mapped and the descriptor of /dev/mem still open.  When
\* the mmap() of GPIO-0 has failed, the startup has been given up with
\* result 1 likewise, GPIO-1 was never mapped, and the descriptor is not
\* closed either.
C18_MapGpioPartialFailure ==
  /\ gpio_1 = "MAP_FAILED" =>
       /\ failed = "map_gpio"
       /\ pc = "init_failed"
       /\ init_result = <<1>>
       /\ gpio_0 = "mapped"
       /\ mem_fd = "open"
  /\ gpio_0 = "MAP_FAILED" =>
       /\ failed = "map_gpio"
       /\ pc = "init_failed"
       /\ init_result = <<1>>
       /\ gpio_1 = "NULL"
       /\ mem_fd \in {"open", "invalid"}

\* GPIO-0 mapped, the mmap() of GPIO-1 failed, and init_pru_motion_queue
\* has returned.
C18_Witness ==
  /\ gpio_0 = "mapped"
  /\ gpio_1 = "MAP_FAILED"
  /\ pc = "init_failed"

\* The slots whose state is not STATE_EMPTY.
NonEmpty == {i \in Slots : ring_buffer[i].state /= STATE_EMPTY}

\* The k slots up to and including the one before queue_pos_, circularly.
RunBeforeCursor(k) ==
  {(queue_pos_ + QUEUE_LEN - j) % QUEUE_LEN : j \in 1 .. k}

\* C19: occupancy.  Between the host's operations, however the PRU's steps
\* interleaved, the occupied slots are the last k filled, for some k from 0
\* to QUEUE_LEN: a circular run that ends at slot (queue_pos_ - 1) %
\* QUEUE_LEN.  If the slot pru_wait_queue_empty looks at is STATE_EMPTY,
\* every slot is; if the slot at queue_pos_ % QUEUE_LEN is occupied, every
\* slot is.
C19_Occupancy ==
  pc = "idle" =>
    /\ \E k \in 0 .. QUEUE_LEN : NonEmpty = RunBeforeCursor(k)
    /\ ring_buffer[LastInsertPosition(queue_pos_)].state = STATE_EMPTY => AllEmpty
    /\ ring_buffer[queue_pos_ % QUEUE_LEN].state /= STATE_EMPTY => NonEmpty = Slots

\* Between two operations the occupied slots are the last one of the ring
\* buffer and slot 0, filled again after the wrap; slot 1 is free.
C19_Witness ==
  /\ pc = "idle"
  /\ queue_pos_ = 1
  /\ Len(written) = QUEUE_LEN + 1
  /\ NonEmpty = {QUEUE_LEN - 1, 0}

\* 2^32 - 1 modulo QUEUE_LEN, from 2^32 - 1 = 65535 * 65537: the value of
\* the unsigned queue_pos_ - 1 for queue_pos_ = 0, reduced.
UintMaxModQueueLen == ((65535 % QUEUE_LEN) * (65537 % QUEUE_LEN)) % QUEUE_LEN

\* C20: index bounds.  queue_pos_ is stored in 0 .. QUEUE_LEN, and is
\* QUEUE_LEN between the operations exactly after the last slot was filled;
\* every index the host applies to the ring buffer (queue_pos_ in the loop
\* of next_queue_element, the slot acquired, the slot pru_wait_queue_empty
\* looks at) is in 0 .. QUEUE_LEN-1.  After at least one enqueue
\* pru_wait_queue_empty looks at the slot filled last.  With nothing
\* enqueued it looks at slot (2^32 - 1) % QUEUE_LEN, which is STATE_EMPTY,
\* and never gets to wait.
C20_IndexBounds ==
  /\ queue_pos_ \in 0 .. QUEUE_LEN
  /\ pc \in NqeLoopPcs => queue_pos_ \in Slots
  /\ pc \in {"enq_copy", "enq_flip"} => queue_element \in Slots
  /\ pc \in WqeLoopPcs => last_insert_position \in Slots
  /\ pc = "idle" =>
       (queue_pos_ = QUEUE_LEN
          <=> (Len(enqueued) > 0 /\ Len(enqueued) % QUEUE_LEN = 0))
  /\ (pc \in WqeLoopPcs /\ Len(enqueued) >= 1) =>
       /\ Len(written) = Len(enqueued)
       /\ last_insert_position = (Len(written) - 1) % QUEUE_LEN
  /\ (pc \in WqeLoopPcs /\ Len(enqueued) = 0) =>
       /\ queue_pos_ = 0
       /\ last_insert_position = UintMaxModQueueLen
       /\ ring_buffer[last_insert_position].state = STATE_EMPTY
       /\ pc = "wqe_loop"

\* pru_wait_queue_empty on a fresh channel: queue_pos_ is 0, and the loop
\* is about to test the slot the unsigned wrap leads to.
C20_Witness ==
  /\ pc = "wqe_loop"
  /\ enqueued = <<>>
  /\ queue_pos_ = 0
  /\ last_insert_position = UintMaxModQueueLen

============================================================================
